---- MODULE Spec2Model ----
(***************************************************************************)
(* Model of the IFC fragment converter service.                           *)
(*                                                                         *)
(* The repository holds two builds of the same HTTP service:               *)
(*   "server"  - src/server.js: cache key = sha256(filename), multipart    *)
(*               IFC upload on POST /api/convert-ifc/:filename, file       *)
(*               existence checks and file writes awaited one by one;      *)
(*   "part000" - src/unnamed/part_000: cache key = filename, JSON body     *)
(*               {filename, ifcUrl} on POST /api/convert-ifc, existence    *)
(*               checks and file writes issued together (Promise.all).     *)
(* Both listen on the same port, so one of them runs at a time: `variant`  *)
(* is fixed by Init.  Each request is a process that advances at the       *)
(* `await` points of its handler; the filesystem, the remote fetch and the *)
(* conversion engine are the environment and may fail.                     *)
(***************************************************************************)
EXTENDS Integers, FiniteSets, Sequences, TLC

VARIABLES
  variant,    \* which build is running: "server" or "part000"
  dirExists,  \* whether FRAGMENTS_DIR exists
  disk,       \* [Keys -> [frag, json]]: the files of FRAGMENTS_DIR
  req         \* [Reqs -> request record]: handler state of each request

vars == <<variant, dirExists, disk, req>>

(***************************************************************************)
(* Bounds and value domains                                                *)
(***************************************************************************)
NumReqs == 2

Reqs == 1..NumReqs

Variants == {"server", "part000"}

\* logical model names sent by clients
Names == {"a", "b"}

\* contents of IFC files (uploaded inline, or served by a remote URL)
IfcContents == {"ifc1", "ifc2"}

\* remote source URLs, and the IFC file each one serves
IfcUrls == {"u1", "u2"}

RemoteBody(url) == IF url = "u1" THEN "ifc1" ELSE "ifc2"

\* multipart payloads of Upload: "" is a part that was not sent
UploadPayloads ==
  { [fragFile |-> "F1", jsonFile |-> "J1"],
    [fragFile |-> "F2", jsonFile |-> "J2"],
    [fragFile |-> "",   jsonFile |-> "J1"],
    [fragFile |-> "F1", jsonFile |-> ""  ],
    [fragFile |-> "",   jsonFile |-> ""  ] }

\* inputs of Convert: server.js takes the name from the path and the IFC file
\* from the multipart payload, part_000 takes {filename, ifcUrl} from the body;
\* "" is an input that was not sent
ConvertInputs(v) ==
  IF v = "server"
  THEN {[filename |-> n, src |-> d] : n \in Names, d \in IfcContents \cup {""}}
  ELSE {[filename |-> n, src |-> u] : n \in Names, u \in IfcUrls \cup {""}}
       \cup {[filename |-> "", src |-> "u1"]}

\* writer ids: a request, or 0 for an earlier run of the server
Writers == 0..NumReqs

\* what a write that failed half way leaves in the file
Truncated == "TRUNC"

(***************************************************************************)
(* Pure helpers of the source                                              *)
(***************************************************************************)
\* mutant: the digest is taken of a constant, not of the filename
getFileHashOfNothing(filename) == "e3b0c442"

\* createHash('sha256').update(filename).digest('hex'), by its first 8 digits
getFileHash(filename) ==
  CASE filename = "a" -> "ca978112"
    [] filename = "b" -> "3e23e816"
    [] OTHER -> "e3b0c442"

\* the cache key each build derives from the client's filename
Key(v, filename) == IF v = "server" THEN getFileHash(filename) ELSE filename

Keys == Names \cup {getFileHash(n) : n \in Names}

KeysOf(v) == {Key(v, n) : n \in Names}

FRAGMENTS_DIR == "public/fragments"

\* paths and URLs of the pair of a key
getFilePaths(filename) ==
  [ fragPath |-> <<FRAGMENTS_DIR, filename, ".frag">>,
    jsonPath |-> <<FRAGMENTS_DIR, filename, ".json">>,
    fragUrl  |-> <<"/fragments/", filename, ".frag">>,
    jsonUrl  |-> <<"/fragments/", filename, ".json">> ]

\* fragments.export(model): the fragment bytes of a loaded IFC model
ExportFragments(ifcData) == IF ifcData = "ifc1" THEN "FRAG1" ELSE "FRAG2"

\* model.getLocalProperties(): the properties object of a loaded IFC model
getLocalProperties(ifcData) == [e1 |-> ifcData]

\* mutant: the properties object is written without JSON.stringify
JSONstringifyOmitted(properties) == "[object Object]"

\* JSON.stringify(properties)
JSONstringify(properties) ==
  IF properties.e1 = "ifc1" THEN "{\"e1\":\"ifc1\"}" ELSE "{\"e1\":\"ifc2\"}"

(***************************************************************************)
(* Files and responses                                                     *)
(***************************************************************************)
NoFile == [exists |-> FALSE, data |-> "", by |-> 0]

File(data, by) == [exists |-> TRUE, data |-> data, by |-> by]

NoPair == [frag |-> NoFile, json |-> NoFile]

\* a pair stored by an earlier run of the server
PriorPair == [frag |-> File("F0", 0), json |-> File("J0", 0)]

NoResp == [status |-> 0, success |-> FALSE, fragUrl |-> <<>>, jsonUrl |-> <<>>,
           error |-> <<>>]

\* res.json({ success: true, fragUrl, jsonUrl })
OkResp(key) ==
  [status |-> 200, success |-> TRUE, fragUrl |-> getFilePaths(key).fragUrl,
   jsonUrl |-> getFilePaths(key).jsonUrl, error |-> <<>>]

\* res.json({ success: false })
AbsentResp == [status |-> 200, success |-> FALSE, fragUrl |-> <<>>,
               jsonUrl |-> <<>>, error |-> <<>>]

\* res.status(code).json({ success: false, error })
ErrResp(code, error) ==
  [status |-> code, success |-> FALSE, fragUrl |-> <<>>, jsonUrl |-> <<>>,
   error |-> error]

(***************************************************************************)
(* Request records                                                         *)
(***************************************************************************)
\* a request that has not arrived yet
IdleReq ==
  [ kind       |-> "none",    \* "check", "upload" or "convert"
    filename   |-> "",        \* req.params.filename / req.body.filename
    key        |-> "",        \* the cache key derived from filename
    fragFile   |-> "",        \* req.files.fragFile.data ("" = not sent)
    jsonFile   |-> "",        \* req.files.jsonFile.data ("" = not sent)
    src        |-> "",        \* req.files.ifcFile.data or req.body.ifcUrl
    pc         |-> "idle",    \* the await the handler is suspended at
    fragStat   |-> "none",    \* fs.stat(fragPath): none, pending, done
    jsonStat   |-> "none",    \* fs.stat(jsonPath): none, pending, done
    fragExists |-> FALSE,     \* !!fragStats
    jsonExists |-> FALSE,     \* !!jsonStats
    fragAtStat |-> FALSE,     \* history: the .frag file existed when it was checked
    jsonAtStat |-> FALSE,     \* history: the .json file existed when it was checked
    statErr    |-> FALSE,     \* history: a check failed for another reason than absence
    fetched    |-> "none",    \* history: how the remote fetch ended
    loaded     |-> "none",    \* history: how load/export/getLocalProperties ended
    ifcData    |-> "",        \* the IFC bytes given to the loader
    wFrag      |-> "none",    \* fs.writeFile(fragPath): none, pending, ok, failed
    wJson      |-> "none",    \* fs.writeFile(jsonPath): none, pending, ok, failed
    collab     |-> "none",    \* the OBC.Components instance: none, acquired, disposed
    fetches    |-> 0,         \* calls of fetch made by this request
    loads      |-> 0,         \* calls of fragmentIfcLoader.load made by this request
    mkdirs     |-> 0,         \* calls of fs.mkdir made by this request
    resp       |-> NoResp,    \* the response sent (status 0: none yet)
    nresp      |-> 0,         \* number of responses sent
    doneBefore |-> {},        \* history: requests answered before this one arrived
    interfered |-> FALSE ]    \* history: another request wrote this key meanwhile

Active(q) == req[q].pc \notin {"idle", "done"}

Answered(q) == req[q].pc = "done"

\* a request with a file write still in flight
Writing(q) == req[q].wFrag = "pending" \/ req[q].wJson = "pending"

\* requests arrive in the order of their ids
MayArrive(r) ==
  /\ req[r].pc = "idle"
  /\ IF r = 1 THEN TRUE ELSE req[r - 1].pc # "idle"

\* the record of a request at arrival
Arrived(r, kind, filename) ==
  [ IdleReq EXCEPT !.kind = kind, !.filename = filename,
                   !.key = Key(variant, filename),
                   !.doneBefore = {q \in Reqs : Answered(q)} ]

\* the handler sends `resp` and returns
Respond(rec, resp) ==
  [rec EXCEPT !.pc = "done", !.resp = resp, !.nresp = rec.nresp + 1]

(***************************************************************************)
(* Decisions of the handlers                                               *)
(***************************************************************************)
\* mutant: `fragExists || jsonExists`
PairPresentEither(fragExists, jsonExists) == fragExists \/ jsonExists

\* `fragExists && jsonExists` (server.js: `fragStats && jsonStats`)
PairPresent(fragExists, jsonExists) == fragExists /\ jsonExists

\* mutant: the rejection of fs.stat is mapped to a truthy value
StatResultAlways(file) == TRUE

\* mutant: the result of fs.stat is dropped
StatResultNever(file) == FALSE

\* fs.stat(path).catch(() => null), then !!stats
StatResult(file) == file.exists

\* `.catch(() => null)`: a rejection of fs.stat, whatever its reason, becomes
\* null, and !!null is false
StatCaught == FALSE

\* whether a build may complete the stat of the .json file now: server.js
\* awaits the stat of the .frag file first, part_000 issues both together
JsonStatReady(v, fragStat) == v = "part000" \/ fragStat = "done"

\* mutant: the request is rejected only when both parts are missing
UploadMissingBoth(fragFile, jsonFile) == fragFile = "" /\ jsonFile = ""

\* Upload: `!req.files || !req.files.fragFile || !req.files.jsonFile`
UploadMissing(fragFile, jsonFile) == fragFile = "" \/ jsonFile = ""

\* URL-sourced Convert: `!filename || !ifcUrl`, tested before anything else
ConvertUrlMissing(filename, ifcUrl) == filename = "" \/ ifcUrl = ""

\* mutant: the `return` of the cache hit is missing
ConvertBranchNoHit(v, present, src) ==
  IF v = "part000" THEN "fetch"
  ELSE IF src = "" THEN "missing"
  ELSE "load"

\* What Convert does once the existence checks are back:
\*   "hit"     both files exist: answer their URLs
\*   "missing" (server.js) no ifcFile in the payload: answer 400
\*   "fetch"   (part_000) download the IFC file
\*   "load"    (server.js) load the inline IFC file
ConvertBranch(v, present, src) ==
  IF present THEN "hit"
  ELSE IF v = "part000" THEN "fetch"
  ELSE IF src = "" THEN "missing"
  ELSE "load"

\* mutant: `response.ok` is not tested, the body of an error page is returned
fetchIfcFileUnchecked(url, outcome) ==
  CASE outcome = "network" -> [ok |-> FALSE, data |-> "", message |-> "fetch failed"]
    [] OTHER               -> [ok |-> TRUE, data |-> RemoteBody(url), message |-> ""]

\* fetchIfcFile(url): outcome "ok" is a 2xx response with a readable body,
\* "notOk" a response with !response.ok, "network" a rejected fetch
fetchIfcFile(url, outcome) ==
  CASE outcome = "ok"    -> [ok |-> TRUE,  data |-> RemoteBody(url), message |-> ""]
    [] outcome = "notOk" -> [ok |-> FALSE, data |-> "",
                             message |-> "Failed to fetch IFC file: Not Found"]
    [] OTHER             -> [ok |-> FALSE, data |-> "", message |-> "fetch failed"]

FetchOutcomes == {"ok", "notOk", "network"}

\* load, export and getLocalProperties: which of them throws, if any
LoadOutcomes == {"ok", "loadFail", "exportFail", "propsFail"}

LoadMessage(outcome) ==
  CASE outcome = "loadFail"   -> "IFC load failed"
    [] outcome = "exportFail" -> "fragments export failed"
    [] OTHER                  -> "getLocalProperties failed"

\* mutant: the files are saved whatever load/export did
ConversionAssumed(outcome) == TRUE

\* whether the handler goes on to save the files after load/export
ConversionSucceeded(outcome) == outcome = "ok"

\* the error of the 500 answered by the catch block of Convert
ConvertError(v, message) ==
  IF v = "part000" THEN <<"Server error during IFC conversion: ", message>>
  ELSE <<"Server error during IFC conversion">>

\* the 400 of a Convert without its input
ConvertMissingError(v) ==
  IF v = "part000" THEN <<"Missing filename or IFC URL">> ELSE <<"Missing IFC file">>

\* ensureFragmentsDir(): server.js catches and logs the error of fs.mkdir,
\* part_000 lets it reach the handler's catch block
MkdirThrows(v, outcome) == v = "part000" /\ outcome = "fail"

\* fs.mkdir(FRAGMENTS_DIR, {recursive: true}) succeeds on an existing directory
MkdirOutcomes(exists) == IF exists THEN {"ok"} ELSE {"ok", "fail"}

\* fs.writeFile(path, data): "ok" replaces the file; a failed write leaves the
\* file as it was ("failKeep": the open failed) or created/truncated
\* ("failTrunc": the write failed after the open).  Without the directory
\* the open fails.  A write that succeeds replaces the whole file in one
\* step; no handler ever removes a file.
WriteOutcomes(exists) ==
  IF exists THEN {"ok", "failKeep", "failTrunc"} ELSE {"failKeep"}

\* mutant: a write that fails removes the file it was writing
WrittenOrRemoved(old, data, by, outcome) ==
  CASE outcome = "ok" -> File(data, by)
    [] OTHER          -> NoFile

\* the file a completed fs.writeFile leaves
Written(old, data, by, outcome) ==
  CASE outcome = "ok"        -> File(data, by)
    [] outcome = "failTrunc" -> File(Truncated, by)
    [] OTHER                 -> old

\* mutant: the .frag file receives the data of the other part
FragBytesCrossed(rec) ==
  IF rec.kind = "upload" THEN rec.jsonFile ELSE ExportFragments(rec.ifcData)

\* the bytes a request writes to its .frag file
FragBytes(rec) ==
  IF rec.kind = "upload" THEN rec.fragFile ELSE ExportFragments(rec.ifcData)

\* the bytes a request writes to its .json file
JsonBytes(rec) ==
  IF rec.kind = "upload" THEN rec.jsonFile
  ELSE JSONstringify(getLocalProperties(rec.ifcData))

\* the writes issued after ensureFragmentsDir: server.js awaits the .frag
\* write before it starts the .json write, part_000 starts both
IssueWrites(v, rec) ==
  IF v = "part000"
  THEN [rec EXCEPT !.pc = "write", !.wFrag = "pending", !.wJson = "pending"]
  ELSE [rec EXCEPT !.pc = "write", !.wFrag = "pending"]

\* after both writes: dispose the engine (Convert), answer the URLs
Finish(rec) ==
  Respond([rec EXCEPT !.collab = IF rec.kind = "convert" THEN "disposed" ELSE @],
          OkResp(rec.key))

\* the 500 answered by the catch block of a handler
Fail(v, rec, message) ==
  Respond(rec, ErrResp(500, IF rec.kind = "convert" THEN ConvertError(v, message)
                            ELSE <<"Server error">>))

(***************************************************************************)
(* Initial state: the server has started.  The directory may hold pairs    *)
(* stored by an earlier run; the startup ensureFragmentsDir may have       *)
(* failed (server.js logs the error and goes on).                          *)
(***************************************************************************)
Init ==
  /\ variant \in Variants
  /\ disk \in [Keys -> {NoPair, PriorPair}]
  /\ \A k \in Keys : disk[k] # NoPair => k = Key(variant, "a")
  /\ dirExists \in BOOLEAN
  /\ (\E k \in Keys : disk[k] # NoPair) => dirExists
  /\ req = [r \in Reqs |-> IdleReq]

(***************************************************************************)
(* Arrival of a request: the handler runs up to its first await            *)
(***************************************************************************)
\* GET /api/fragments/:filename
StartCheck(r) ==
  /\ MayArrive(r)
  /\ \E n \in Names :
       req' = [req EXCEPT ![r] =
                 [Arrived(r, "check", n) EXCEPT !.pc = "stat",
                                                !.fragStat = "pending",
                                                !.jsonStat = "pending"]]
  /\ UNCHANGED <<variant, dirExists, disk>>

\* POST /api/fragments/:filename
StartUpload(r) ==
  /\ MayArrive(r)
  /\ \E n \in Names, p \in UploadPayloads :
       LET rec == [Arrived(r, "upload", n) EXCEPT !.fragFile = p.fragFile,
                                                  !.jsonFile = p.jsonFile]
       IN req' = [req EXCEPT ![r] =
                    IF UploadMissing(p.fragFile, p.jsonFile)
                    THEN Respond(rec, ErrResp(400, <<"Missing files">>))
                    ELSE [rec EXCEPT !.pc = "mkdir", !.mkdirs = 1]]
  /\ UNCHANGED <<variant, dirExists, disk>>

\* POST /api/convert-ifc/:filename (server.js), POST /api/convert-ifc (part_000)
StartConvert(r) ==
  /\ MayArrive(r)
  /\ \E in \in ConvertInputs(variant) :
       LET rec == [Arrived(r, "convert", in.filename) EXCEPT !.src = in.src]
       IN req' = [req EXCEPT ![r] =
                    IF variant = "part000" /\ ConvertUrlMissing(in.filename, in.src)
                    THEN Respond(rec, ErrResp(400, ConvertMissingError(variant)))
                    ELSE [rec EXCEPT !.pc = "stat", !.fragStat = "pending",
                                     !.jsonStat = "pending"]]
  /\ UNCHANGED <<variant, dirExists, disk>>

(***************************************************************************)
(* Existence checks                                                        *)
(***************************************************************************)
\* Check answers from the two results
CheckRespond(rec) ==
  Respond(rec, IF PairPresent(rec.fragExists, rec.jsonExists)
               THEN OkResp(rec.key) ELSE AbsentResp)

\* initIfcLoader() and fragmentIfcLoader.load(ifcData) are called
StartLoad(rec, ifcData) ==
  [rec EXCEPT !.pc = "load", !.collab = "acquired", !.ifcData = ifcData,
              !.loads = @ + 1]

\* Convert resumes after the existence checks
ConvertDecide(v, rec) ==
  LET branch == ConvertBranch(v, PairPresent(rec.fragExists, rec.jsonExists),
                              rec.src)
  IN CASE branch = "hit"     -> Respond(rec, OkResp(rec.key))
       [] branch = "missing" -> Respond(rec, ErrResp(400, ConvertMissingError(v)))
       [] branch = "fetch"   -> [rec EXCEPT !.pc = "fetch", !.fetches = @ + 1]
       [] OTHER              -> StartLoad(rec, rec.src)

\* the handler resumes once both stats are back
AfterStat(v, rec) ==
  IF rec.fragStat = "done" /\ rec.jsonStat = "done"
  THEN IF rec.kind = "check" THEN CheckRespond(rec) ELSE ConvertDecide(v, rec)
  ELSE rec

\* fs.stat(fragPath) completes
StatFrag(r) ==
  /\ req[r].pc = "stat"
  /\ req[r].fragStat = "pending"
  /\ req' = [req EXCEPT ![r] =
               AfterStat(variant, [@ EXCEPT !.fragStat = "done",
                                   !.fragAtStat = disk[req[r].key].frag.exists,
                                   !.fragExists = StatResult(disk[req[r].key].frag)])]
  /\ UNCHANGED <<variant, dirExists, disk>>

\* fs.stat(jsonPath) completes
StatJson(r) ==
  /\ req[r].pc = "stat"
  /\ req[r].jsonStat = "pending"
  /\ JsonStatReady(variant, req[r].fragStat)
  /\ req' = [req EXCEPT ![r] =
               AfterStat(variant, [@ EXCEPT !.jsonStat = "done",
                                   !.jsonAtStat = disk[req[r].key].json.exists,
                                   !.jsonExists = StatResult(disk[req[r].key].json)])]
  /\ UNCHANGED <<variant, dirExists, disk>>

\* fetchIfcFile(ifcUrl) returns or throws
FetchDone(r) ==
  /\ req[r].pc = "fetch"
  /\ \E outcome \in FetchOutcomes :
       LET got == fetchIfcFile(req[r].src, outcome)
           rec == [req[r] EXCEPT !.fetched = outcome]
       IN req' = [req EXCEPT ![r] =
                    IF got.ok THEN StartLoad(rec, got.data)
                    ELSE Fail(variant, rec, got.message)]
  /\ UNCHANGED <<variant, dirExists, disk>>

\* load, export and getLocalProperties return or throw; on success
\* ensureFragmentsDir is called
LoadDone(r) ==
  /\ req[r].pc = "load"
  /\ \E outcome \in LoadOutcomes :
       LET rec == [req[r] EXCEPT !.loaded = outcome]
       IN req' = [req EXCEPT ![r] =
                    IF ConversionSucceeded(outcome)
                    THEN [rec EXCEPT !.pc = "mkdir", !.mkdirs = @ + 1]
                    ELSE Fail(variant, rec, LoadMessage(outcome))]
  /\ UNCHANGED <<variant, dirExists, disk>>

(***************************************************************************)
(* Saving the pair (Upload and Convert)                                    *)
(***************************************************************************)
\* ensureFragmentsDir() returns or throws; then the writes are issued
MkdirDone(r) ==
  /\ req[r].pc = "mkdir"
  /\ \E outcome \in MkdirOutcomes(dirExists) :
       /\ dirExists' = (dirExists \/ outcome = "ok")
       /\ req' = [req EXCEPT ![r] =
                    IF MkdirThrows(variant, outcome)
                    THEN Fail(variant, @, "EACCES: mkdir")
                    ELSE IssueWrites(variant, @)]
  /\ UNCHANGED <<variant, disk>>

\* the other requests of the key see a write land while they run
Interfere(r, key, changed) ==
  [q \in Reqs |->
     IF q # r /\ changed /\ Active(q) /\ req[q].key = key
     THEN [req[q] EXCEPT !.interfered = TRUE] ELSE req[q]]

\* mutant: a write that settles after the response makes the handler answer again
AfterFragWriteAnswersAgain(v, rec, outcome) ==
  LET rec2 == [rec EXCEPT !.wFrag = IF outcome = "ok" THEN "ok" ELSE "failed"]
  IN IF outcome # "ok" THEN Fail(v, rec2, "ENOSPC: write")
     ELSE IF rec.pc # "write" THEN rec2
     ELSE IF v = "server" THEN [rec2 EXCEPT !.wJson = "pending"]
     ELSE IF rec2.wJson = "ok" THEN Finish(rec2)
     ELSE rec2

\* the handler of r resumes after its .frag write
AfterFragWrite(v, rec, outcome) ==
  LET rec2 == [rec EXCEPT !.wFrag = IF outcome = "ok" THEN "ok" ELSE "failed"]
  IN IF rec.pc # "write" THEN rec2
     ELSE IF outcome # "ok" THEN Fail(v, rec2, "ENOSPC: write")
     ELSE IF v = "server" THEN [rec2 EXCEPT !.wJson = "pending"]
     ELSE IF rec2.wJson = "ok" THEN Finish(rec2)
     ELSE rec2

\* mutant: the rejection of the .json write is swallowed
AfterJsonWriteSwallowed(v, rec, outcome) ==
  LET rec2 == [rec EXCEPT !.wJson = IF outcome = "ok" THEN "ok" ELSE "failed"]
  IN IF rec.pc # "write" THEN rec2
     ELSE IF rec2.wFrag = "ok" THEN Finish(rec2)
     ELSE rec2

\* the handler of r resumes after its .json write
AfterJsonWrite(v, rec, outcome) ==
  LET rec2 == [rec EXCEPT !.wJson = IF outcome = "ok" THEN "ok" ELSE "failed"]
  IN IF rec.pc # "write" THEN rec2
     ELSE IF outcome # "ok" THEN Fail(v, rec2, "ENOSPC: write")
     ELSE IF rec2.wFrag = "ok" THEN Finish(rec2)
     ELSE rec2

\* fs.writeFile(fragPath, ...) completes
WriteFragDone(r) ==
  /\ req[r].wFrag = "pending"
  /\ \E outcome \in WriteOutcomes(dirExists) :
       LET key == req[r].key
           new == Written(disk[key].frag, FragBytes(req[r]), r, outcome)
       IN /\ disk' = [disk EXCEPT ![key].frag = new]
          /\ req' = [Interfere(r, key, new # disk[key].frag) EXCEPT ![r] =
                       AfterFragWrite(variant, req[r], outcome)]
  /\ UNCHANGED <<variant, dirExists>>

\* fs.writeFile(jsonPath, ...) completes
WriteJsonDone(r) ==
  /\ req[r].wJson = "pending"
  /\ \E outcome \in WriteOutcomes(dirExists) :
       LET key == req[r].key
           new == Written(disk[key].json, JsonBytes(req[r]), r, outcome)
       IN /\ disk' = [disk EXCEPT ![key].json = new]
          /\ req' = [Interfere(r, key, new # disk[key].json) EXCEPT ![r] =
                       AfterJsonWrite(variant, req[r], outcome)]
  /\ UNCHANGED <<variant, dirExists>>

Next ==
  \E r \in Reqs :
    \/ StartCheck(r)
    \/ StartUpload(r)
    \/ StartConvert(r)
    \/ StatFrag(r)
    \/ StatJson(r)
    \/ FetchDone(r)
    \/ LoadDone(r)
    \/ MkdirDone(r)
    \/ WriteFragDone(r)
    \/ WriteJsonDone(r)

Spec == Init /\ [][Next]_vars

\* the pending call of request r (fs.stat, fetch, the engine, fs.mkdir,
\* fs.writeFile) returns or fails
Settle(r) ==
  \/ StatFrag(r)
  \/ StatJson(r)
  \/ FetchDone(r)
  \/ LoadDone(r)
  \/ MkdirDone(r)
  \/ WriteFragDone(r)
  \/ WriteJsonDone(r)

\* every call a handler awaits returns or fails
FairSpec == Init /\ [][Next]_vars /\ \A r \in Reqs : WF_vars(Settle(r))

(***************************************************************************)
(* Storage faults on the existence checks: fs.stat rejects with an error   *)
(* other than ENOENT (EACCES, EIO, EMFILE) although the file may exist.    *)
(***************************************************************************)
\* fs.stat(fragPath) rejects with a storage error
StatFragError(r) ==
  /\ req[r].pc = "stat"
  /\ req[r].fragStat = "pending"
  /\ req' = [req EXCEPT ![r] =
               AfterStat(variant, [@ EXCEPT !.fragStat = "done",
                                   !.fragAtStat = disk[req[r].key].frag.exists,
                                   !.statErr = TRUE,
                                   !.fragExists = StatCaught])]
  /\ UNCHANGED <<variant, dirExists, disk>>

\* fs.stat(jsonPath) rejects with a storage error
StatJsonError(r) ==
  /\ req[r].pc = "stat"
  /\ req[r].jsonStat = "pending"
  /\ JsonStatReady(variant, req[r].fragStat)
  /\ req' = [req EXCEPT ![r] =
               AfterStat(variant, [@ EXCEPT !.jsonStat = "done",
                                   !.jsonAtStat = disk[req[r].key].json.exists,
                                   !.statErr = TRUE,
                                   !.jsonExists = StatCaught])]
  /\ UNCHANGED <<variant, dirExists, disk>>

NextStatFault ==
  \/ Next
  \/ \E r \in Reqs : StatFragError(r)
  \/ \E r \in Reqs : StatJsonError(r)

SpecStatFault == Init /\ [][NextStatFault]_vars

(***************************************************************************)
(* Properties                                                              *)
(***************************************************************************)
Checked(r) == req[r].fragStat = "done" /\ req[r].jsonStat = "done"

\* r has touched nothing outside its own memory besides the existence checks
NoWork(r) ==
  /\ req[r].fetches = 0
  /\ req[r].loads = 0
  /\ req[r].collab = "none"
  /\ req[r].mkdirs = 0
  /\ req[r].wFrag = "none"
  /\ req[r].wJson = "none"
  /\ \A k \in Keys : disk[k].frag.by # r /\ disk[k].json.by # r

\* C1: Check answers {success:true, fragUrl, jsonUrl} only if both files
\* existed when it checked them; if one of them (or both) did not exist it
\* answers HTTP 200 {success:false} without URLs.
C1_CheckBothOrAbsent ==
  \A r \in Reqs :
    (req[r].kind = "check" /\ Answered(r)) =>
      /\ req[r].resp.success =>
           /\ req[r].fragAtStat /\ req[r].jsonAtStat
           /\ req[r].resp = OkResp(req[r].key)
      /\ ~(req[r].fragAtStat /\ req[r].jsonAtStat) => req[r].resp = AbsentResp

\* a Check answered {success:false} that found exactly one of the two files
C1_Witness ==
  \E r \in Reqs :
    /\ req[r].kind = "check" /\ Answered(r)
    /\ req[r].fragAtStat # req[r].jsonAtStat
    /\ req[r].resp = AbsentResp

\* C2: in every Convert the existence check precedes every fetch, engine
\* call and write; a Convert whose check finds both files answers
\* success:true with the two URLs and fetches, converts and writes nothing.
C2_ShortCircuit ==
  \A r \in Reqs :
    req[r].kind = "convert" =>
      /\ ~NoWork(r) => Checked(r)
      /\ (Checked(r) /\ req[r].fragExists /\ req[r].jsonExists) =>
           /\ Answered(r)
           /\ req[r].resp = OkResp(req[r].key)
           /\ NoWork(r)

\* a Convert answered from the cache
C2_Witness ==
  \E r \in Reqs :
    /\ req[r].kind = "convert" /\ Answered(r)
    /\ req[r].fragExists /\ req[r].jsonExists
    /\ req[r].resp.success

\* C3: a Convert issued after a successful Convert of the same name and
\* source returns the same two URLs and makes no fetch and no conversion.
C3_IdempotentConvert ==
  \A r \in Reqs : \A q \in req[r].doneBefore :
    ( /\ req[r].kind = "convert" /\ req[q].kind = "convert"
      /\ req[q].resp.success
      /\ req[q].filename = req[r].filename
      /\ req[q].src = req[r].src ) =>
        /\ req[r].fetches = 0
        /\ req[r].loads = 0
        /\ Answered(r) =>
             /\ req[r].resp.success
             /\ req[r].resp.fragUrl = req[q].resp.fragUrl
             /\ req[r].resp.jsonUrl = req[q].resp.jsonUrl

\* a first Convert that converted and stored, then a second one, answered
C3_Witness ==
  \E r \in Reqs : \E q \in req[r].doneBefore :
    /\ req[r].kind = "convert" /\ req[q].kind = "convert"
    /\ req[q].resp.success /\ req[q].loads = 1
    /\ req[q].filename = req[r].filename /\ req[q].src = req[r].src
    /\ Answered(r) /\ req[r].resp.success

\* the IFC bytes a Convert works on
SourceBytes(v, rec) == IF v = "server" THEN rec.src ELSE RemoteBody(rec.src)

\* the pair a successful conversion of `ifcData` by request r stores
ConvertedPair(ifcData, r) ==
  [ frag |-> File(ExportFragments(ifcData), r),
    json |-> File(JSONstringify(getLocalProperties(ifcData)), r) ]

\* the existence check of r found exactly one of the two files
FoundPartial(r) == Checked(r) /\ (req[r].fragAtStat # req[r].jsonAtStat)

\* C4: a Convert whose existence check finds exactly one of the two files
\* does not short-circuit: it answers success only after one conversion and
\* two successful writes, and when it answers (no other request having
\* written the key meanwhile) both files hold the output of that conversion.
C4_PartialPairRegenerated ==
  /\ [](\A r \in Reqs :
         ( /\ req[r].kind = "convert"
           /\ FoundPartial(r)
           /\ req[r].src # ""
           /\ req[r].pc # "fetch"
           /\ req[r].fetched \in {"none", "ok"} ) => req[r].loads = 1)
  /\ [][ \A r \in Reqs :
        ( /\ req[r].kind = "convert"
          /\ ~Answered(r)
          /\ req'[r].pc = "done"
          /\ FoundPartial(r)'
          /\ req'[r].resp.success ) =>
            /\ req'[r].loads = 1
            /\ req'[r].wFrag = "ok" /\ req'[r].wJson = "ok"
            /\ ~req'[r].interfered =>
                 disk'[req[r].key] = ConvertedPair(SourceBytes(variant, req[r]), r)
       ]_vars

\* a Convert that found one file, converted, stored and answered success
C4_Witness ==
  \E r \in Reqs :
    /\ req[r].kind = "convert" /\ Answered(r) /\ FoundPartial(r)
    /\ req[r].resp.success /\ req[r].loads = 1 /\ ~req[r].interfered
    /\ disk[req[r].key] = ConvertedPair(SourceBytes(variant, req[r]), r)

\* C5: whenever both files of a key exist, they were written by one and the
\* same operation.
C5_PairIntegrity ==
  \A k \in Keys :
    (disk[k].frag.exists /\ disk[k].json.exists) => disk[k].frag.by = disk[k].json.by

WriteFailed(r) == req[r].wFrag = "failed" \/ req[r].wJson = "failed"

\* C6: a request one of whose writes failed answers 500, and every existence
\* check of that key made by a request arriving later reports the pair
\* absent, as long as no other request has written both files.
C6_FailedWriteNotPresent ==
  \A r \in Reqs :
    (WriteFailed(r) /\ Answered(r)) =>
      /\ req[r].resp.status = 500 /\ ~req[r].resp.success
      /\ \A q \in Reqs :
           ( /\ r \in req[q].doneBefore
             /\ req[q].kind \in {"check", "convert"}
             /\ req[q].key = req[r].key
             /\ Checked(q)
             /\ \A p \in Reqs \ {r} :
                  ~(req[p].key = req[r].key /\ req[p].wFrag = "ok" /\ req[p].wJson = "ok") )
             => ~PairPresent(req[q].fragExists, req[q].jsonExists)

\* C7: a Convert that has acquired an engine instance has disposed it when it
\* answers.
C7_CollaboratorReleased ==
  \A r \in Reqs : Answered(r) => req[r].collab # "acquired"

FetchFailureErrors ==
  { <<"Server error during IFC conversion: ", "Failed to fetch IFC file: Not Found">>,
    <<"Server error during IFC conversion: ", "fetch failed">> }

MissingInputErrors == {<<"Missing filename or IFC URL">>, <<"Missing IFC file">>}

\* r has written nothing and has not asked for the directory
NoStore(r) ==
  /\ req[r].mkdirs = 0
  /\ req[r].wFrag = "none"
  /\ req[r].wJson = "none"
  /\ \A k \in Keys : disk[k].frag.by # r /\ disk[k].json.by # r

\* C8: a URL-sourced Convert whose fetch fails answers 500 {success:false}
\* with an error naming the fetch failure, acquires no engine instance and
\* writes nothing.
C8_FetchFailureIsolation ==
  \A r \in Reqs :
    req[r].fetched \in {"notOk", "network"} =>
      /\ Answered(r)
      /\ req[r].resp.status = 500 /\ ~req[r].resp.success
      /\ req[r].resp.error \in FetchFailureErrors
      /\ req[r].collab = "none" /\ req[r].loads = 0
      /\ NoStore(r)

\* a Convert whose fetch failed on a key that had no file, and still has none
C8_Witness ==
  \E r \in Reqs :
    /\ req[r].fetched = "notOk" /\ Answered(r)
    /\ ~req[r].fragAtStat /\ ~req[r].jsonAtStat
    /\ disk[req[r].key] = NoPair

\* C9: a Convert whose load, export or property extraction fails answers 500
\* {success:false} with an error that is neither the fetch-failure nor the
\* missing-input error, and creates or modifies no file.
C9_ConversionFailureWritesNothing ==
  \A r \in Reqs :
    req[r].loaded \in {"loadFail", "exportFail", "propsFail"} =>
      /\ Answered(r)
      /\ req[r].resp.status = 500 /\ ~req[r].resp.success
      /\ req[r].resp.error \notin FetchFailureErrors \cup MissingInputErrors
      /\ req[r].resp.error # <<>>
      /\ NoStore(r)

\* a Convert answered 500 after the export threw
C9_Witness ==
  \E r \in Reqs :
    /\ req[r].loaded = "exportFail" /\ Answered(r)
    /\ req[r].resp.status = 500

\* a Convert that met no failure of the fetch, the engine or the storage
CleanRun(r) ==
  /\ req[r].src # "" /\ req[r].filename # ""
  /\ req[r].fetched \in {"none", "ok"}
  /\ req[r].loaded \in {"none", "ok"}
  /\ ~WriteFailed(r)
  /\ req[r].resp.status # 500

\* C10: a Convert issued after a failed Convert of the same name, and meeting
\* no failure itself, answers success:true, and then both files exist and
\* hold the output of one successful conversion.
C10_RetryConverges ==
  \A r \in Reqs : \A q \in req[r].doneBefore :
    ( /\ req[r].kind = "convert" /\ req[q].kind = "convert"
      /\ req[q].filename = req[r].filename
      /\ req[q].resp.status = 500
      /\ Answered(r) /\ CleanRun(r) ) =>
        /\ req[r].resp.success
        /\ \E d \in IfcContents : \E w \in Writers :
             disk[req[r].key] = ConvertedPair(d, w)

\* C11: an Upload lacking the fragment file or the properties file answers
\* 400 {success:false} with an error, and neither asks for the directory nor
\* creates or modifies a file.
C11_UploadMissingRejected ==
  \A r \in Reqs :
    (req[r].kind = "upload" /\ (req[r].fragFile = "" \/ req[r].jsonFile = "")) =>
      /\ Answered(r)
      /\ req[r].resp.status = 400 /\ ~req[r].resp.success
      /\ req[r].resp.error # <<>>
      /\ NoStore(r)

\* an Upload without its properties file, rejected, the directory still absent
C11_Witness ==
  \E r \in Reqs :
    /\ req[r].kind = "upload" /\ req[r].fragFile # "" /\ req[r].jsonFile = ""
    /\ req[r].resp.status = 400
    /\ ~dirExists

\* no request other than q and r has arrived for the key of q
Undisturbed(q, r) ==
  \A p \in Reqs \ {q, r} : req[p].kind = "none" \/ req[p].key # req[q].key

\* C12: a Check issued after a successful Upload of the same name (no other
\* request on that key) answers success:true with the URLs the Upload
\* returned, and the two files hold exactly the uploaded bytes.
C12_UploadRoundTrip ==
  \A r \in Reqs : \A q \in req[r].doneBefore :
    ( /\ req[q].kind = "upload" /\ req[q].resp.success
      /\ req[r].kind = "check" /\ req[r].filename = req[q].filename
      /\ Answered(r)
      /\ Undisturbed(q, r) ) =>
        /\ req[r].resp.success
        /\ req[r].resp.fragUrl = req[q].resp.fragUrl
        /\ req[r].resp.jsonUrl = req[q].resp.jsonUrl
        /\ disk[req[q].key].frag.exists /\ disk[req[q].key].frag.data = req[q].fragFile
        /\ disk[req[q].key].json.exists /\ disk[req[q].key].json.data = req[q].jsonFile

\* an Upload of (F2, J2), then a Check of the same name answered success
C12_Witness ==
  \E r \in Reqs : \E q \in req[r].doneBefore :
    /\ req[q].kind = "upload" /\ req[q].resp.success
    /\ req[q].fragFile = "F2" /\ req[q].jsonFile = "J2"
    /\ req[r].kind = "check" /\ req[r].filename = req[q].filename
    /\ Answered(r) /\ req[r].resp.success
    /\ disk[req[q].key].frag.data = "F2" /\ disk[req[q].key].json.data = "J2"

\* what the engine returns for each IFC file, and the JSON text of the
\* properties object
ExpectedFrag(ifcData) == IF ifcData = "ifc1" THEN "FRAG1" ELSE "FRAG2"

ExpectedJson(ifcData) ==
  IF ifcData = "ifc1" THEN "{\"e1\":\"ifc1\"}" ELSE "{\"e1\":\"ifc2\"}"

FoundNone(r) == Checked(r) /\ ~req[r].fragAtStat /\ ~req[r].jsonAtStat

\* C13: on a key with no files Check answers {success:false}; a Convert that
\* finds no file and succeeds has converted once, leaves the fragment bytes in
\* {k}.frag and the JSON text of the properties in {k}.json (no other request
\* having written the key meanwhile) and answers URLs naming k; a Check
\* issued afterwards answers success:true with those URLs.
C13_ConvertPostCondition ==
  /\ [](\A r \in Reqs :
         (req[r].kind = "check" /\ FoundNone(r) /\ Answered(r)) =>
            req[r].resp = AbsentResp)
  /\ [][ \A r \in Reqs :
           ( /\ req[r].kind = "convert"
             /\ ~Answered(r)
             /\ req'[r].pc = "done"
             /\ FoundNone(r)'
             /\ req'[r].resp.success ) =>
               /\ req'[r].loads = 1
               /\ req'[r].resp.fragUrl = <<"/fragments/", req[r].key, ".frag">>
               /\ req'[r].resp.jsonUrl = <<"/fragments/", req[r].key, ".json">>
               /\ ~req'[r].interfered =>
                    /\ disk'[req[r].key].frag =
                         [exists |-> TRUE, by |-> r,
                          data |-> ExpectedFrag(SourceBytes(variant, req[r]))]
                    /\ disk'[req[r].key].json =
                         [exists |-> TRUE, by |-> r,
                          data |-> ExpectedJson(SourceBytes(variant, req[r]))]
       ]_vars
  /\ [](\A r \in Reqs : \A q \in req[r].doneBefore :
         ( /\ req[q].kind = "convert" /\ req[q].resp.success /\ FoundNone(q)
           /\ req[r].kind = "check" /\ req[r].filename = req[q].filename
           /\ Answered(r) ) =>
             /\ req[r].resp.success
             /\ req[r].resp.fragUrl = req[q].resp.fragUrl
             /\ req[r].resp.jsonUrl = req[q].resp.jsonUrl)

\* a Convert on an empty key that stored its output, then a Check answered
\* success
C13_Witness ==
  \E r \in Reqs : \E q \in req[r].doneBefore :
    /\ req[q].kind = "convert" /\ req[q].resp.success /\ FoundNone(q)
    /\ req[q].loads = 1
    /\ disk[req[q].key].frag.data = ExpectedFrag(SourceBytes(variant, req[q]))
    /\ disk[req[q].key].json.data = ExpectedJson(SourceBytes(variant, req[q]))
    /\ req[r].kind = "check" /\ req[r].filename = req[q].filename
    /\ Answered(r) /\ req[r].resp.success

\* the Convert request lacks its required input
LacksInput(r) ==
  /\ req[r].kind = "convert"
  /\ IF variant = "server" THEN req[r].src = ""
     ELSE req[r].filename = "" \/ req[r].src = ""

\* C14: a Convert lacking its required input is answered 400 {success:false}
\* whatever the directory holds, acquires no engine instance and writes
\* nothing.
C14_ConvertMissingInput ==
  \A r \in Reqs :
    LacksInput(r) =>
      /\ Answered(r) => (req[r].resp.status = 400 /\ ~req[r].resp.success)
      /\ req[r].collab = "none"
      /\ NoStore(r)

\* C15: a Check or Convert one of whose existence checks failed for a reason
\* other than the file not existing answers 500 {success:false}, and does not
\* go on as if the file were absent.
C15_StatErrorSurfaces ==
  \A r \in Reqs :
    req[r].statErr =>
      /\ req[r].fetches = 0 /\ req[r].loads = 0
      /\ Answered(r) => (req[r].resp.status = 500 /\ ~req[r].resp.success)

\* the envelope of a response: success:true with both URLs, or success:false
\* with an error string on every 400 and 500
Envelope(resp) ==
  IF resp.success
  THEN resp.status = 200 /\ resp.fragUrl # <<>> /\ resp.jsonUrl # <<>>
  ELSE /\ resp.status \in {200, 400, 500}
       /\ resp.status \in {400, 500} => resp.error # <<>>

\* C16: every request that has arrived is eventually answered, provided the
\* calls it awaits return or fail; it is answered exactly once, never twice,
\* and the response is a well-formed envelope.
C16_OneEnvelope ==
  /\ [](\A r \in Reqs :
          /\ req[r].nresp <= 1
          /\ Answered(r) <=> req[r].nresp = 1
          /\ Answered(r) => Envelope(req[r].resp))
  /\ \A r \in Reqs : (req[r].pc # "idle") ~> Answered(r)

\* a request answered 500 after one of its writes failed, answered once
C16_Witness ==
  \E r \in Reqs :
    /\ Answered(r)
    /\ req[r].wFrag = "failed" \/ req[r].wJson = "failed"
    /\ req[r].resp.status = 500
    /\ req[r].nresp = 1

\* request r takes a step: it arrives, resumes after an awaited call, or one
\* of its writes settles
Acts(r) ==
  \/ req'[r].pc # req[r].pc
  \/ req'[r].fragStat # req[r].fragStat
  \/ req'[r].jsonStat # req[r].jsonStat
  \/ req'[r].wFrag # req[r].wFrag
  \/ req'[r].wJson # req[r].wJson

\* no other request has arrived for the key of r
Alone(r) ==
  \A q \in Reqs \ {r} : req[q].kind = "none" \/ req[q].key # req[r].key

\* C17: a step of a request for one name leaves the two files of every other
\* name as they were (distinct names have distinct keys); and a request that
\* is alone on its key, whatever requests run on other keys, answers from its
\* own key only: a Check succeeds exactly when both files of its key exist,
\* an Upload or Convert that succeeded has left its own bytes in its key.
C17_KeyIndependence ==
  /\ [][\A r \in Reqs :
          Acts(r) =>
            \A n \in Names \ {req'[r].filename} :
              /\ Key(variant, n) # req'[r].key
              /\ disk'[Key(variant, n)] = disk[Key(variant, n)]]_vars
  /\ [](\A r \in Reqs :
          (Alone(r) /\ Answered(r) /\ ~Writing(r)) =>
            LET mine == disk[req[r].key]
            IN /\ req[r].kind = "check" =>
                    (req[r].resp.success <=> mine.frag.exists /\ mine.json.exists)
               /\ (req[r].kind = "upload" /\ req[r].resp.success) =>
                    /\ mine.frag = File(req[r].fragFile, r)
                    /\ mine.json = File(req[r].jsonFile, r)
               /\ (req[r].kind = "convert" /\ req[r].resp.success) =>
                    IF req[r].loads = 0
                    THEN mine.frag.exists /\ mine.json.exists
                    ELSE /\ mine.frag = File(ExpectedFrag(req[r].ifcData), r)
                         /\ mine.json = File(ExpectedJson(req[r].ifcData), r))

\* two requests for different names ran at the same time, each stored its
\* own pair, and each key holds the bytes of its own request
C17_Witness ==
  \E r \in Reqs : \E q \in Reqs \ {r} :
    /\ req[r].kind = "upload" /\ req[q].kind = "convert"
    /\ req[r].filename = "a" /\ req[q].filename = "b"
    /\ r \notin req[q].doneBefore /\ q \notin req[r].doneBefore
    /\ Answered(r) /\ req[r].resp.success
    /\ Answered(q) /\ req[q].resp.success /\ req[q].loads = 1
    /\ disk[req[r].key].frag.by = r /\ disk[req[q].key].frag.by = q

\* two Converts of one name that both checked the key before it held both
\* files (each saw at least one file missing), and both answered success
Raced(r, q) ==
  /\ r # q
  /\ req[r].kind = "convert" /\ req[q].kind = "convert"
  /\ req[r].key = req[q].key
  /\ Checked(r) /\ ~(req[r].fragAtStat /\ req[r].jsonAtStat)
  /\ Checked(q) /\ ~(req[q].fragAtStat /\ req[q].jsonAtStat)

\* C18: two Converts of the same key that both made their existence check
\* before both files were there both bypass the short-circuit, both run the
\* conversion and both issue both writes; once both have answered success,
\* both files exist and the two responses carry the same URLs.
C18_SameKeyRace ==
  \A r \in Reqs : \A q \in Reqs :
    Raced(r, q) =>
      /\ (req[r].pc \notin {"stat", "fetch"} /\ req[r].resp.status \notin {400, 500})
            => req[r].loads = 1
      /\ req[r].resp.success =>
            /\ req[r].loads = 1
            /\ req[r].wFrag = "ok" /\ req[r].wJson = "ok"
      /\ (req[r].resp.success /\ req[q].resp.success) =>
            /\ disk[req[r].key].frag.exists /\ disk[req[r].key].json.exists
            /\ disk[req[r].key].frag.by \in {r, q}
            /\ disk[req[r].key].json.by \in {r, q}
            /\ req[r].resp.fragUrl = req[q].resp.fragUrl
            /\ req[r].resp.jsonUrl = req[q].resp.jsonUrl

\* both Converts were in flight together, both converted and both answered
\* success; the pair left is mixed: each file comes from a different request
C18_Witness ==
  \E r \in Reqs : \E q \in Reqs :
    /\ Raced(r, q)
    /\ r \notin req[q].doneBefore /\ q \notin req[r].doneBefore
    /\ req[r].resp.success /\ req[q].resp.success
    /\ req[r].loads = 1 /\ req[q].loads = 1
    /\ disk[req[r].key].frag.by = r /\ disk[req[r].key].json.by = q

\* no step removes a file of the fragments directory
NothingRemoved ==
  \A k \in Keys :
    /\ disk[k].frag.exists => disk'[k].frag.exists
    /\ disk[k].json.exists => disk'[k].json.exists

\* r arrived after a Check or Convert of the same key had answered
\* success:true, and its own existence checks met no storage error
AfterSuccess(r) ==
  /\ ~req[r].statErr
  /\ \E q \in req[r].doneBefore :
       /\ req[q].kind \in {"check", "convert"}
       /\ req[q].resp.success
       /\ req[q].key = req[r].key

\* r skipped the conversion and answered the URLs of its key
ShortCircuited(r) ==
  /\ req[r].resp = OkResp(req[r].key)
  /\ req[r].fetches = 0 /\ req[r].loads = 0
  /\ NoStore(r)

C20_NoWriteAfterResponse ==
  \A r \in Reqs : Answered(r) => ~Writing(r)

====
